---- MODULE Spec2Model ----
(***************************************************************************)
(* A model of the blockchain_workshop ledger: transactions executed        *)
(* against the account table (types/transaction.rs), blocks and their      *)
(* cached hash (types/block.rs), the proof-of-work target check            *)
(* (utils.rs) and Blockchain::append_block / validate                      *)
(* (types/blockchain.rs).                                                  *)
(*                                                                         *)
(* Option<T> is a sequence of length 0 (None) or 1 (Some(x)).              *)
(* Result<(), Error> is the string "Ok" or the error message.              *)
(* A Blake2s digest is represented by the tuple of fields it was computed  *)
(* from (a collision-free digest); Hex gives its 64 hex digits.            *)
(***************************************************************************)
EXTENDS Integers, Sequences, FiniteSets, TLC

VARIABLES
    blocks,            \* Blockchain.blocks: the chain, oldest block first
    accounts,          \* Blockchain.accounts: AccountId -> Account
    transaction_pool,  \* Blockchain.transaction_pool (never written)
    current_target,    \* Blockchain.current_target
    last_timestamp,    \* Blockchain.last_timestamp
    overflow_checks,   \* the build: integer overflow panics (TRUE) or wraps
    candidate,         \* the caller's block under construction (an Option)
    result,            \* what the last call returned
    trace,             \* the transactions the last call executed, in order
    pre,               \* the Ledger as it was when the last call began
    submitted,         \* the block handed to the last mining or append_block
                       \* call, where a specification records it (an Option)
    probe              \* the last direct call of a function or method: its
                       \* arguments and what it returned (an Option)

vars == <<blocks, accounts, transaction_pool, current_target, last_timestamp,
          overflow_checks, candidate, result, trace, pre, submitted, probe>>

ledger == [blocks |-> blocks, accounts |-> accounts,
           transaction_pool |-> transaction_pool,
           current_target |-> current_target,
           last_timestamp |-> last_timestamp]

----------------------------------------------------------------------------
(* Bounds of the model *)

MaxBlocks == 3
MaxTxs == 3
MaxChainTxs == 1
MaxAmount == 2
MaxBalance == 3     \* the largest Balance; stands for u128::MAX
MaxNonce == 3
MaxTime == 1
MaxClock == 8
MaxRetargets == 4

(* Program constants *)

MAX_TARGET == 536870896
COEFFICIENT_LENGTH == 6
HASH_LENGTH == 64
EXPECTED_TIME_NUM == 3
EXPECTED_TIME_DEN == 2

None == <<>>
Some(x) == <<x>>
Ok == "Ok"
Panic == "panic"

AccountIds == {"alice", "bob", "carol"}
PublicKeys == {"pk1", "pk2"}

AccountTypes == {"User", "Contract"}

----------------------------------------------------------------------------
(* types/account.rs *)

Account_new(account_type, public_key) ==
    [account_type |-> account_type, balance |-> 0, public_key |-> public_key]

(* impl WorldState for Blockchain; all return [res, accounts] *)

\* mutant of create_account: HashMap::insert, whether or not the id is taken
create_account_overwrites(accts, account_id, account_type, public_key) ==
    [res |-> Ok,
     accounts |-> [id \in DOMAIN accts \cup {account_id} |->
                      IF id = account_id
                      THEN Account_new(account_type, public_key)
                      ELSE accts[id]]]

create_account(accts, account_id, account_type, public_key) ==
    IF account_id \in DOMAIN accts
    THEN [res |-> "AccountId already exist: " \o account_id, accounts |-> accts]
    ELSE [res |-> Ok,
          accounts |-> accts @@ (account_id :> Account_new(account_type, public_key))]

get_account_by_id(accts, account_id) ==
    IF account_id \in DOMAIN accts THEN Some(accts[account_id]) ELSE None

----------------------------------------------------------------------------
(* types/transaction.rs *)

\* CreateAccount carries the public key that create_account(account_id,
\* account_type, public_key) stores (blockchain.rs) and that every caller
\* passes; execute hands the payload to create_account and checks nothing
CreateAccount(account_id, public_key) ==
    [kind |-> "CreateAccount", to |-> account_id, amount |-> 0,
     public_key |-> public_key]
MintInitialSupply(to, amount) ==
    [kind |-> "MintInitialSupply", to |-> to, amount |-> amount,
     public_key |-> ""]
Transfer(to, amount) ==
    [kind |-> "Transfer", to |-> to, amount |-> amount, public_key |-> ""]

Transaction_new(data, from) ==
    [nonce |-> 0, timestamp |-> 0, from |-> from, data |-> data,
     signature |-> None]

\* mutant of Transaction_hash: the Debug form of the whole struct is hashed
Transaction_hash_of_struct(tx) == tx

\* impl Hashable for Transaction: the digest of (nonce, timestamp, from, data)
Transaction_hash(tx) ==
    [nonce |-> tx.nonce, timestamp |-> tx.timestamp, from |-> tx.from,
     data |-> tx.data]

is_enough(acc, amount) == acc > amount

\* Balance arithmetic: `+=` and `-=` on a Balance leave 0..MaxBalance in a
\* build without overflow checks by wrapping around, and panic in a build
\* with them
add_overflows(a, b) == a + b > MaxBalance
wrapping_add(a, b) == (a + b) % (MaxBalance + 1)
sub_overflows(a, b) == a < b
wrapping_sub(a, b) == (a - b + MaxBalance + 1) % (MaxBalance + 1)

execute_CreateAccount(tx, accts) ==
    create_account(accts, tx.data.to, "User", tx.data.public_key)

\* mutant of execute_MintInitialSupply: is_genesis is not looked at
execute_MintInitialSupply_any_block(tx, accts, is_genesis, checks) ==
    IF get_account_by_id(accts, tx.data.to) = None
    THEN [res |-> "Invalid account.", accounts |-> accts]
    ELSE IF add_overflows(accts[tx.data.to].balance, tx.data.amount) /\ checks
    THEN [res |-> Panic, accounts |-> accts]
    ELSE [res |-> Ok,
          accounts |-> [accts EXCEPT ![tx.data.to].balance =
                                         wrapping_add(@, tx.data.amount)]]

execute_MintInitialSupply(tx, accts, is_genesis, checks) ==
    IF ~is_genesis
    THEN [res |-> "Initial supply can be minted only in genesis block.",
          accounts |-> accts]
    ELSE IF get_account_by_id(accts, tx.data.to) = None
    THEN [res |-> "Invalid account.", accounts |-> accts]
    ELSE IF add_overflows(accts[tx.data.to].balance, tx.data.amount) /\ checks
    THEN [res |-> Panic, accounts |-> accts]
    ELSE [res |-> Ok,
          accounts |-> [accts EXCEPT ![tx.data.to].balance =
                                         wrapping_add(@, tx.data.amount)]]

\* receiver.balance += amount, then acc.balance -= amount on the sender
credit_then_debit(accts, sender, to, amount, checks) ==
    LET credited == [accts EXCEPT ![to].balance = wrapping_add(@, amount)]
    IN  IF add_overflows(accts[to].balance, amount) /\ checks
        THEN [res |-> Panic, accounts |-> accts]
        ELSE IF sub_overflows(credited[sender].balance, amount) /\ checks
        THEN [res |-> Panic, accounts |-> credited]
        ELSE [res |-> Ok,
              accounts |-> [credited EXCEPT ![sender].balance =
                                                wrapping_sub(@, amount)]]

\* mutant of execute_Transfer: the sender is debited before the receiver is
\* looked up
execute_Transfer_debit_first(tx, accts, checks) ==
    IF tx.from = None
    THEN [res |-> "Sender name doesn't exist", accounts |-> accts]
    ELSE LET sender == tx.from[1]
             to == tx.data.to
             amount == tx.data.amount
         IN  IF get_account_by_id(accts, sender) = None
             THEN [res |-> "Sender account doesn't exist", accounts |-> accts]
             ELSE IF ~is_enough(accts[sender].balance, amount)
             THEN [res |-> "Sender haven't enough money!", accounts |-> accts]
             ELSE LET debited == [accts EXCEPT ![sender].balance =
                                                   wrapping_sub(@, amount)]
                  IN  IF get_account_by_id(accts, to) = None
                      THEN [res |-> "Receiver doesn't exist", accounts |-> debited]
                      ELSE [res |-> Ok,
                            accounts |-> [debited EXCEPT ![to].balance =
                                                             wrapping_add(@, amount)]]

execute_Transfer(tx, accts, checks) ==
    IF tx.from = None
    THEN [res |-> "Sender name doesn't exist", accounts |-> accts]
    ELSE LET sender == tx.from[1]
             to == tx.data.to
             amount == tx.data.amount
         IN  IF get_account_by_id(accts, sender) = None
             THEN [res |-> "Sender account doesn't exist", accounts |-> accts]
             ELSE IF ~is_enough(accts[sender].balance, amount)
             THEN [res |-> "Sender haven't enough money!", accounts |-> accts]
             ELSE IF get_account_by_id(accts, to) = None
             THEN [res |-> "Receiver doesn't exist", accounts |-> accts]
             ELSE credit_then_debit(accts, sender, to, amount, checks)

execute(tx, accts, is_genesis, checks) ==
    CASE tx.data.kind = "CreateAccount" -> execute_CreateAccount(tx, accts)
      [] tx.data.kind = "MintInitialSupply" ->
             execute_MintInitialSupply(tx, accts, is_genesis, checks)
      [] tx.data.kind = "Transfer" -> execute_Transfer(tx, accts, checks)

RECURSIVE run_transactions_on_snapshot(_, _, _, _, _)
\* mutant of run_transactions: every transaction runs against the table the
\* block started from
run_transactions_on_snapshot(txs, i, accts, is_genesis, checks) ==
    IF i > Len(txs)
    THEN [res |-> Ok, accounts |-> accts, trace |-> <<>>]
    ELSE LET r == execute(txs[i], accts, is_genesis, checks)
             entry == [tx |-> txs[i], is_genesis |-> is_genesis,
                       before |-> accts, after |-> r.accounts, res |-> r.res]
         IN  IF r.res # Ok
             THEN [res |-> r.res, accounts |-> r.accounts, trace |-> <<entry>>]
             ELSE LET rest == run_transactions_on_snapshot(txs, i + 1, accts,
                                                           is_genesis, checks)
                  IN  [res |-> rest.res,
                       accounts |-> IF i = Len(txs) THEN r.accounts
                                    ELSE rest.accounts,
                       trace |-> <<entry>> \o rest.trace]

RECURSIVE run_transactions(_, _, _, _, _)
\* the loop of append_block over block.transactions, from index i on:
\* [res, accounts (the live table when the loop ends), trace]
run_transactions(txs, i, accts, is_genesis, checks) ==
    IF i > Len(txs)
    THEN [res |-> Ok, accounts |-> accts, trace |-> <<>>]
    ELSE LET r == execute(txs[i], accts, is_genesis, checks)
             entry == [tx |-> txs[i], is_genesis |-> is_genesis,
                       before |-> accts, after |-> r.accounts, res |-> r.res]
         IN  IF r.res # Ok
             THEN [res |-> r.res, accounts |-> r.accounts, trace |-> <<entry>>]
             ELSE LET rest == run_transactions(txs, i + 1, r.accounts,
                                               is_genesis, checks)
                  IN  [res |-> rest.res, accounts |-> rest.accounts,
                       trace |-> <<entry>> \o rest.trace]

----------------------------------------------------------------------------
(* types/block.rs *)

\* mutant of Block_hash: the transactions are not fed to the hasher
Block_hash_without_transactions(block) ==
    [prev_hash |-> block.prev_hash, nonce |-> block.nonce, txs |-> <<>>]

\* impl Hashable for Block: the digest of (prev_hash, nonce) and of every
\* transaction's hash, in order (the timestamp is not fed to the hasher)
Block_hash(block) ==
    [prev_hash |-> block.prev_hash, nonce |-> block.nonce,
     txs |-> [i \in 1..Len(block.transactions) |->
                  Transaction_hash(block.transactions[i])]]

\* mutant of update_hash: the cached hash is left as it is
update_hash_skipped(block) == block

update_hash(block) == [block EXCEPT !.hash = Some(Block_hash(block))]

Block_new(prev_hash, now) ==
    update_hash([nonce |-> 0, timestamp |-> now, hash |-> None,
                 prev_hash |-> prev_hash, transactions |-> <<>>])

set_nonce(block, nonce) == update_hash([block EXCEPT !.nonce = nonce])

add_transaction(block, transaction) ==
    update_hash([block EXCEPT !.transactions = Append(@, transaction)])

verify(block) == block.hash # None /\ block.hash[1] = Block_hash(block)

RECURSIVE add_transactions(_, _, _)
\* for tx in transactions { block.add_transaction(tx) }
add_transactions(block, txs, i) ==
    IF i > Len(txs) THEN block
    ELSE add_transactions(add_transaction(block, txs[i]), txs, i + 1)

----------------------------------------------------------------------------
(* The hex digits of a block digest.  Blake2s is outside the repository:   *)
(* the stand-in lets the nonce decide the number of leading zero digits,   *)
(* so that a nonce search meets easy and hard targets.  Nonce 1 gives the  *)
(* digest 00fffff0..., whose compact form is MAX_TARGET itself.            *)

LeadingZeros(nonce) ==
    CASE nonce = 0 -> 0
      [] nonce \in {1, 2} -> 2
      [] nonce = 3 -> 50
      [] OTHER -> 58

FirstDigits(nonce) ==
    IF nonce = 1 THEN <<15, 15, 15, 15, 15, 0>> ELSE <<7, 10>>

HexDigits(nonce, n) ==
    LET z == LeadingZeros(nonce)
        first == FirstDigits(nonce)
    IN  [i \in 1..HASH_LENGTH |->
            IF i <= z THEN 0
            ELSE IF i <= z + Len(first) THEN first[i - z]
            ELSE (n + i) % 16]

\* the digits of every digest the model computes, by nonce and number of
\* transactions
HexTable ==
    [nonce \in 0..(MaxNonce + 1), n \in 0..(MaxTxs + 1) |-> HexDigits(nonce, n)]

Hex(hash) == HexTable[hash.nonce, Len(hash.txs)]

----------------------------------------------------------------------------
(* utils.rs *)

RECURSIVE first_nonzero(_, _)
\* the loop of find_beginning_of_hash from the 0-based index iter on
first_nonzero(hash, iter) ==
    IF iter >= Len(hash) THEN 0
    ELSE IF hash[iter + 1] # 0 THEN iter
    ELSE first_nonzero(hash, iter + 1)

\* the 0-based index of the first digit that is not '0'; 0 when there is none
find_beginning_of_hash(hash) == first_nonzero(hash, 0)

\* hash[beginning..], left-padded with '0' to an even length
new_hash_of(hash) ==
    LET beginning == find_beginning_of_hash(hash)
        tail == SubSeq(hash, beginning + 1, Len(hash))
    IN  IF Len(tail) % 2 # 0 THEN <<0>> \o tail ELSE tail

\* &new_hash[..COEFFICIENT_LENGTH] panics when new_hash is shorter
hash_to_bits_panics(hash) == Len(new_hash_of(hash)) < COEFFICIENT_LENGTH

hash_to_bits(hash) ==
    LET new_hash == new_hash_of(hash)
        number_of_bytes == Len(new_hash) \div 2
        exponent == <<number_of_bytes \div 16, number_of_bytes % 16>>
        coefficient == SubSeq(new_hash, 1, COEFFICIENT_LENGTH)
    IN  exponent \o coefficient

RECURSIVE from_str_radix(_, _)
\* u64::from_str_radix(s, 16), the first n digits of s
from_str_radix(s, n) ==
    IF n = 0 THEN 0 ELSE from_str_radix(s, n - 1) * 16 + s[n]

\* mutant of check_target: a hash equal to the target clears it
check_target_or_equal(target, hash) ==
    LET bits == hash_to_bits(hash)
    IN  from_str_radix(bits, Len(bits)) <= target

check_target(target, hash) ==
    LET bits == hash_to_bits(hash)
    IN  from_str_radix(bits, Len(bits)) < target

RECURSIVE mining_from(_, _, _)
\* the nonce search of mining(), from `nonce` on; the search is cut at MaxNonce
mining_from(block, target, nonce) ==
    LET mined == set_nonce(block, nonce)
    IN  IF nonce > MaxNonce THEN None
        ELSE IF check_target(target, Hex(mined.hash[1])) THEN Some(mined)
        ELSE mining_from(block, target, nonce + 1)

\* mutant of mining: the loop body never runs, nonce 1 is kept
mining_without_loop(block, target) == Some(set_nonce(block, 1))

\* the nonce search; None: no nonce up to MaxNonce clears the target
mining(block, target) == mining_from(block, target, 1)

----------------------------------------------------------------------------
(* Chain<Block>: append, len, head, iter (newest block first) *)

Chain_append(chain, block) == Append(chain, block)
Chain_len(chain) == Len(chain)
Chain_head(chain) == IF Len(chain) = 0 THEN None ELSE Some(chain[Len(chain)])
Chain_iter(chain) == [i \in 1..Len(chain) |-> chain[Len(chain) + 1 - i]]

----------------------------------------------------------------------------
(* types/blockchain.rs *)

Blockchain_new ==
    [blocks |-> <<>>, accounts |-> <<>>, transaction_pool |-> <<>>,
     current_target |-> MAX_TARGET, last_timestamp |-> 0]

\* mutant of get_last_block_hash: the head's prev_hash instead of its hash
get_last_block_hash_of_parent(bc) ==
    IF Chain_head(bc.blocks) = None THEN None
    ELSE Chain_head(bc.blocks)[1].prev_hash

\* mutant of get_last_block_hash: the hash of the oldest block
get_last_block_hash_of_first(bc) ==
    IF Chain_len(bc.blocks) = 0 THEN None
    ELSE Some(Block_hash(bc.blocks[1]))

\* self.blocks.head().map(|block| block.hash())
get_last_block_hash(bc) ==
    IF Chain_head(bc.blocks) = None THEN None
    ELSE Some(Block_hash(Chain_head(bc.blocks)[1]))

\* mutant of ceil_mul: the product is truncated, new_target as u64 without
\* ceil()
ceil_mul_truncated(target, num, den) ==
    LET q == target \div den
        r == target % den
    IN  q * num + ((r * num) \div den)

\* ceil(target * num / den), without leaving 32 bits
ceil_mul(target, num, den) ==
    LET q == target \div den
        r == target % den
    IN  q * num + ((r * num + den - 1) \div den)

\* mutant of retarget_ratio: last_timestamp is written before the subtraction,
\* actual is 0
retarget_ratio_after_write(actual, wrapped) == <<1, 4>>

\* ratio = (actual as f64) / EXPECTED_TIME clamped to [0.25, 4.0], as <<num, den>>;
\* wrapped: the u64 subtraction wrapped around (a release build), actual is huge
retarget_ratio(actual, wrapped) ==
    IF wrapped THEN <<4, 1>>
    ELSE IF actual * EXPECTED_TIME_DEN * 4 < EXPECTED_TIME_NUM THEN <<1, 4>>
    ELSE IF actual * EXPECTED_TIME_DEN > 4 * EXPECTED_TIME_NUM THEN <<4, 1>>
    ELSE <<actual * EXPECTED_TIME_DEN, EXPECTED_TIME_NUM>>

\* mutant of retarget: the new target is stored without the MAX_TARGET clamp
retarget_unclamped(target, ratio) == ceil_mul(target, ratio[1], ratio[2])

retarget(target, ratio) ==
    LET new_target == ceil_mul(target, ratio[1], ratio[2])
    IN  IF new_target >= MAX_TARGET THEN MAX_TARGET ELSE new_target

\* mutant of next_target: the genesis block retargets too
next_target_on_genesis(target, is_genesis, ratio) == retarget(target, ratio)

\* if !is_genesis { ... self.current_target = ... }
next_target(target, is_genesis, ratio) ==
    IF is_genesis THEN target ELSE retarget(target, ratio)

\* mutant of restore: the backup is never written back
restore_skipped(account_backup, live) == live

\* mutant of restore: the table is reset instead of restored
restore_to_default(account_backup, live) == <<>>

\* self.accounts = account_backup
restore(account_backup, live) == account_backup

Return(bc, res, tr) == [ledger |-> bc, result |-> res, trace |-> tr]

\* mutant of has_no_transactions: the transaction count is not looked at
has_no_transactions_ignored(block) == FALSE

\* block.transactions.len() == 0
has_no_transactions(block) == Len(block.transactions) = 0

\* mutant of append_block: the retarget and last_timestamp are written before
\* the transactions run
append_block_retargets_first(bc, block, checks) ==
    LET is_genesis == Chain_len(bc.blocks) = 0
        account_backup == bc.accounts
        run == run_transactions(block.transactions, 1, bc.accounts, is_genesis,
                                checks)
        underflow == block.timestamp < bc.last_timestamp
        ratio == retarget_ratio(block.timestamp - bc.last_timestamp, underflow)
        early == [bc EXCEPT !.current_target =
                                next_target(@, is_genesis, ratio),
                            !.last_timestamp = block.timestamp]
    IN  IF ~verify(block)
        THEN Return(bc, "Block has invalid hash", <<>>)
        ELSE IF hash_to_bits_panics(Hex(block.hash[1]))
        THEN Return(bc, Panic, <<>>)
        ELSE IF ~check_target(bc.current_target, Hex(block.hash[1]))
        THEN Return(bc, "Block hash > current target!", <<>>)
        ELSE IF has_no_transactions(block)
        THEN Return(bc, "Block has 0 transactions.", <<>>)
        ELSE IF run.res = Panic
        THEN Return([early EXCEPT !.accounts = run.accounts], Panic, run.trace)
        ELSE IF run.res # Ok
        THEN Return([early EXCEPT !.accounts = restore(account_backup, run.accounts)],
                    "Error during tx execution: " \o run.res, run.trace)
        ELSE Return([early EXCEPT !.accounts = run.accounts,
                                  !.blocks = Chain_append(@, block)],
                    Ok, run.trace)

\* checks: the build panics on integer overflow (TRUE) or wraps (FALSE)
\* mutant of append_block: the emptiness check comes first
append_block_checks_emptiness_first(bc, block, checks) ==
    LET is_genesis == Chain_len(bc.blocks) = 0
        account_backup == bc.accounts
        run == run_transactions(block.transactions, 1, bc.accounts, is_genesis,
                                checks)
        underflow == block.timestamp < bc.last_timestamp
        ratio == retarget_ratio(block.timestamp - bc.last_timestamp, underflow)
    IN  IF has_no_transactions(block)
        THEN Return(bc, "Block has 0 transactions.", <<>>)
        ELSE IF ~verify(block)
        THEN Return(bc, "Block has invalid hash", <<>>)
        ELSE IF hash_to_bits_panics(Hex(block.hash[1]))
        THEN Return(bc, Panic, <<>>)
        ELSE IF ~check_target(bc.current_target, Hex(block.hash[1]))
        THEN Return(bc, "Block hash > current target!", <<>>)
        ELSE IF run.res = Panic
        THEN Return([bc EXCEPT !.accounts = run.accounts], Panic, run.trace)
        ELSE IF run.res # Ok
        THEN Return([bc EXCEPT !.accounts = restore(account_backup, run.accounts)],
                    "Error during tx execution: " \o run.res, run.trace)
        ELSE IF ~is_genesis /\ underflow /\ checks
        THEN Return([bc EXCEPT !.accounts = run.accounts], Panic, run.trace)
        ELSE Return([bc EXCEPT !.accounts = run.accounts,
                               !.current_target =
                                   next_target(@, is_genesis, ratio),
                               !.last_timestamp = block.timestamp,
                               !.blocks = Chain_append(@, block)],
                    Ok, run.trace)

append_block(bc, block, checks) ==
    LET is_genesis == Chain_len(bc.blocks) = 0
        account_backup == bc.accounts
        run == run_transactions(block.transactions, 1, bc.accounts, is_genesis,
                                checks)
        underflow == block.timestamp < bc.last_timestamp
        ratio == retarget_ratio(block.timestamp - bc.last_timestamp, underflow)
    IN  IF ~verify(block)
        THEN Return(bc, "Block has invalid hash", <<>>)
        ELSE IF hash_to_bits_panics(Hex(block.hash[1]))
        THEN Return(bc, Panic, <<>>)
        ELSE IF ~check_target(bc.current_target, Hex(block.hash[1]))
        THEN Return(bc, "Block hash > current target!", <<>>)
        ELSE IF has_no_transactions(block)
        THEN Return(bc, "Block has 0 transactions.", <<>>)
        ELSE IF run.res = Panic
        THEN Return([bc EXCEPT !.accounts = run.accounts], Panic, run.trace)
        ELSE IF run.res # Ok
        THEN Return([bc EXCEPT !.accounts = restore(account_backup, run.accounts)],
                    "Error during tx execution: " \o run.res, run.trace)
        ELSE IF ~is_genesis /\ underflow /\ checks
        THEN Return([bc EXCEPT !.accounts = run.accounts], Panic, run.trace)
        ELSE Return([bc EXCEPT !.accounts = run.accounts,
                               !.current_target =
                                   next_target(@, is_genesis, ratio),
                               !.last_timestamp = block.timestamp,
                               !.blocks = Chain_append(@, block)],
                    Ok, run.trace)

RECURSIVE validate_loop(_, _, _, _)
\* the loop of validate() over blocks.iter(), at position k of the iteration
validate_loop(iter, k, block_num, prev_block_hash) ==
    IF k > Len(iter) THEN Ok
    ELSE LET block == iter[k]
             is_genesis == block_num = 1
         IN  IF ~verify(block)
             THEN "Block " \o ToString(block_num) \o " has invalid hash"
             ELSE IF ~is_genesis /\ block.prev_hash = None
             THEN "Block " \o ToString(block_num) \o " doesn't have prev_hash"
             ELSE IF is_genesis /\ block.prev_hash # None
             THEN "Genesis block shouldn't have prev_hash"
             ELSE IF /\ block_num # Len(iter)
                     /\ prev_block_hash # None
                     /\ prev_block_hash[1] # block.hash[1]
             THEN "Block " \o ToString(block_num + 1)
                      \o " prev_hash doesn't match Block "
                      \o ToString(block_num) \o " hash"
             ELSE validate_loop(iter, k + 1, block_num - 1, block.prev_hash)

validate(bc) ==
    validate_loop(Chain_iter(bc.blocks), 1, Chain_len(bc.blocks), None)

\* utils::append_block_with_tx: Block::new on the chain head, add the
\* transactions, mine, append
append_block_with_tx(bc, transactions, now, checks) ==
    LET block == add_transactions(Block_new(get_last_block_hash(bc), now),
                                  transactions, 1)
        mined == mining(block, bc.current_target)
    IN  append_block(bc, mined[1], checks)

----------------------------------------------------------------------------
(* The callers' inputs *)

\* tx.signature = Some(keypair.sign(message)): a signature is the key that
\* made it and the message it was made over
sign(public_key, message) == [key |-> public_key, message |-> message]
Signature_verify(public_key, message, signature) ==
    signature.key = public_key /\ signature.message = message

signed(tx, public_key) ==
    [tx EXCEPT !.signature = Some(sign(public_key, Transaction_hash(tx)))]

PkOf(id) == IF id = "alice" THEN "pk1" ELSE "pk2"

CreateTx(id) ==
    signed(Transaction_new(CreateAccount(id, PkOf(id)), Some(id)), PkOf(id))
MintTx(id, amount) == Transaction_new(MintInitialSupply(id, amount), None)
TransferTx(from, to, amount) ==
    signed(Transaction_new(Transfer(to, amount), Some(from)), PkOf(from))

SeqsUpTo(S, n) == UNION {[1..k -> S] : k \in 0..n}

Init ==
    /\ blocks = Blockchain_new.blocks
    /\ accounts = Blockchain_new.accounts
    /\ transaction_pool = Blockchain_new.transaction_pool
    /\ current_target = Blockchain_new.current_target
    /\ last_timestamp = Blockchain_new.last_timestamp
    /\ overflow_checks \in BOOLEAN
    /\ candidate = None
    /\ result = "new"
    /\ trace = <<>>
    /\ pre = Blockchain_new
    /\ submitted = None
    /\ probe = None

\* a call on the Ledger returned r
Returned(r) ==
    /\ blocks' = r.ledger.blocks
    /\ accounts' = r.ledger.accounts
    /\ transaction_pool' = r.ledger.transaction_pool
    /\ current_target' = r.ledger.current_target
    /\ last_timestamp' = r.ledger.last_timestamp
    /\ result' = r.result
    /\ trace' = r.trace
    /\ pre' = ledger
    /\ UNCHANGED <<overflow_checks, probe>>

\* a call on the caller's block returned
Built(b) ==
    /\ candidate' = Some(b)
    /\ result' = Ok
    /\ trace' = <<>>
    /\ pre' = ledger
    /\ UNCHANGED <<blocks, accounts, transaction_pool, current_target,
                   last_timestamp, overflow_checks, submitted, probe>>

----------------------------------------------------------------------------
(* Spec: the steps of utils::append_block_with_tx.  Blocks are created    *)
(* within the second of the block before them.                             *)

BlockTxs ==
    {CreateTx(id) : id \in {"alice", "bob"}}
        \cup {MintTx("alice", MaxAmount)}
        \cup {TransferTx("alice", "bob", 1)}

NewBlock ==
    /\ result # Panic
    /\ candidate = None
    /\ Len(blocks) < MaxBlocks
    /\ candidate' = Some(Block_new(get_last_block_hash(ledger), last_timestamp))
    /\ submitted' = None
    /\ result' = Ok
    /\ trace' = <<>>
    /\ pre' = ledger
    /\ UNCHANGED <<blocks, accounts, transaction_pool, current_target,
                   last_timestamp, overflow_checks, probe>>

AddTransaction(tx) ==
    /\ candidate # None
    /\ Len(candidate[1].transactions) < MaxTxs
    /\ Built(add_transaction(candidate[1], tx))

MineAndAppend ==
    /\ candidate # None
    /\ LET mined == mining(candidate[1], current_target)
       IN  /\ mined # None
           /\ Returned(append_block(ledger, mined[1], overflow_checks))
           /\ submitted' = mined
    /\ candidate' = None

Next ==
    \/ NewBlock
    \/ \E tx \in BlockTxs : AddTransaction(tx)
    \/ MineAndAppend

Spec == Init /\ [][Next]_vars

----------------------------------------------------------------------------
(* SpecChain: append_block called with any block: built on any known hash  *)
(* at any time, mined or not, its cached hash fresh or not.                *)

ChainTxs == {CreateTx(id) : id \in {"alice", "bob"}}

\* the digest of a block that is not in the chain
ForeignHash == Block_hash(Block_new(None, 0))

PrevChoices ==
    {None, Some(ForeignHash)} \cup {blocks[i].hash : i \in 1..Len(blocks)}

\* block.hash is pub(crate): a block may reach append_block with any cached hash
with_hash(b, cached) ==
    CASE cached = "fresh" -> b
      [] cached = "none" -> [b EXCEPT !.hash = None]
      [] cached = "stale" -> [b EXCEPT !.hash = Some(ForeignHash)]

AppendBlock(prev_hash, now, transactions, mine, cached) ==
    /\ result # Panic
    /\ Len(blocks) < MaxBlocks
    /\ LET b == add_transactions(Block_new(prev_hash, now), transactions, 1)
           mined == IF mine THEN mining(b, current_target) ELSE Some(b)
       IN  /\ mined # None
           /\ Returned(append_block(ledger, with_hash(mined[1], cached),
                                overflow_checks))
    /\ candidate' = None
    /\ UNCHANGED submitted

\* mined blocks with a fresh hash, on any hash; blocks that are not mined or
\* whose cached hash is not fresh, on the head
NextChain ==
    \/ \E prev_hash \in PrevChoices, now \in 0..MaxTime,
          transactions \in SeqsUpTo(ChainTxs, MaxChainTxs) :
           AppendBlock(prev_hash, now, transactions, TRUE, "fresh")
    \/ \E now \in 0..MaxTime, transactions \in SeqsUpTo(ChainTxs, MaxChainTxs),
          mine \in BOOLEAN, cached \in {"fresh", "none", "stale"} :
           /\ mine => cached # "fresh"
           /\ AppendBlock(get_last_block_hash(ledger), now, transactions, mine,
                          cached)

SpecChain == Init /\ [][NextChain]_vars

----------------------------------------------------------------------------
(* SpecTx: Transaction::execute applied once to any account table.         *)

TxIds == {"alice", "bob"}

AccountTables ==
    UNION {[S -> [account_type : {"User"}, balance : 0..MaxBalance,
                  public_key : PublicKeys]] : S \in SUBSET TxIds}

TxData ==
    {CreateAccount(id, pk) : id \in TxIds, pk \in PublicKeys}
        \cup {MintInitialSupply(id, n) : id \in TxIds, n \in 0..MaxAmount}
        \cup {Transfer(id, n) : id \in TxIds, n \in 0..MaxAmount}

Unsigned ==
    {Transaction_new(data, from) :
        data \in TxData, from \in {None} \cup {Some(id) : id \in TxIds}}

\* a message that is not the transaction's own hash
other_message(tx) == Transaction_hash([tx EXCEPT !.nonce = 1])

Transactions ==
    Unsigned
        \cup {signed(tx, pk) : tx \in Unsigned, pk \in PublicKeys}
        \cup {[tx EXCEPT !.signature = Some(sign(pk, other_message(tx)))] :
                 tx \in Unsigned, pk \in PublicKeys}

InitTx ==
    /\ blocks = Blockchain_new.blocks
    /\ accounts \in AccountTables
    /\ transaction_pool = Blockchain_new.transaction_pool
    /\ current_target = Blockchain_new.current_target
    /\ last_timestamp = Blockchain_new.last_timestamp
    /\ overflow_checks \in BOOLEAN
    /\ candidate = None
    /\ result = "new"
    /\ trace = <<>>
    /\ pre = Blockchain_new
    /\ submitted = None
    /\ probe = None

Execute(tx, is_genesis) ==
    /\ result = "new"
    /\ LET r == run_transactions(<<tx>>, 1, accounts, is_genesis,
                                 overflow_checks)
       IN  /\ accounts' = r.accounts
           /\ result' = r.res
           /\ trace' = r.trace
    /\ pre' = ledger
    /\ UNCHANGED <<blocks, transaction_pool, current_target, last_timestamp,
                   overflow_checks, candidate, submitted, probe>>

NextTx == \E tx \in Transactions, is_genesis \in BOOLEAN : Execute(tx, is_genesis)

SpecTx == InitTx /\ [][NextTx]_vars

----------------------------------------------------------------------------
(* SpecTamper: a chain built as in Spec, then the data of one stored       *)
(* transaction overwritten in place (block.transactions[j].data = ...), no *)
(* hash recomputed.                                                        *)

TamperData == {MintInitialSupply("alice", 1), Transfer("bob", 1)}

Tamper(i, j, data) ==
    /\ result # "tampered"
    /\ data # blocks[i].transactions[j].data
    /\ blocks' = [blocks EXCEPT ![i].transactions[j].data = data]
    /\ result' = "tampered"
    /\ trace' = <<>>
    /\ pre' = ledger
    /\ UNCHANGED <<accounts, transaction_pool, current_target, last_timestamp,
                   overflow_checks, candidate, submitted, probe>>

NextTamper ==
    \/ result # "tampered" /\ Next
    \/ \E i \in 1..Len(blocks) :
           \E j \in 1..Len(blocks[i].transactions), data \in TamperData :
               Tamper(i, j, data)

SpecTamper == Init /\ [][NextTamper]_vars

----------------------------------------------------------------------------
(* SpecBlock: the operations of Block on the caller's block, in any order, *)
(* and the cached hash overwritten from inside the crate (hash is          *)
(* pub(crate)).                                                            *)

BlockNew(prev_hash) == Built(Block_new(prev_hash, last_timestamp))

SetNonce(nonce) ==
    /\ candidate # None
    /\ Built(set_nonce(candidate[1], nonce))

Forge(cached) ==
    /\ candidate # None
    /\ candidate' = Some(with_hash(candidate[1], cached))
    /\ result' = "forged"
    /\ trace' = <<>>
    /\ pre' = ledger
    /\ UNCHANGED <<blocks, accounts, transaction_pool, current_target,
                   last_timestamp, overflow_checks, submitted, probe>>

NextBlock ==
    \/ \E prev_hash \in {None, Some(ForeignHash)} : BlockNew(prev_hash)
    \/ \E nonce \in 0..MaxNonce : SetNonce(nonce)
    \/ \E tx \in BlockTxs : AddTransaction(tx)
    \/ \E cached \in {"none", "stale"} : Forge(cached)

SpecBlock == Init /\ [][NextBlock]_vars

----------------------------------------------------------------------------
(* SpecPow: the caller builds a block of one transaction on the head, sets *)
(* a nonce or mines, and hands a clone of the block to append_block,       *)
(* keeping the block: a block may be appended unmined, or mined against a  *)
(* target that has changed since.                                          *)

PowTxs == {CreateTx(id) : id \in AccountIds}

PowNewBlock(tx) ==
    /\ result # Panic
    /\ Len(blocks) < MaxBlocks
    /\ Built(add_transaction(Block_new(get_last_block_hash(ledger),
                                       last_timestamp), tx))

Mine ==
    /\ result # Panic
    /\ candidate # None
    /\ LET mined == mining(candidate[1], current_target)
       IN  /\ mined # None
           /\ candidate' = mined
    /\ submitted' = candidate
    /\ result' = "mined"
    /\ trace' = <<>>
    /\ pre' = ledger
    /\ UNCHANGED <<blocks, accounts, transaction_pool, current_target,
                   last_timestamp, overflow_checks, probe>>

AppendClone ==
    /\ result # Panic
    /\ candidate # None
    /\ Len(blocks) < MaxBlocks
    /\ Returned(append_block(ledger, candidate[1], overflow_checks))
    /\ submitted' = candidate
    /\ UNCHANGED candidate

NextPow ==
    \/ \E tx \in PowTxs : PowNewBlock(tx)
    \/ \E nonce \in 0..MaxNonce : SetNonce(nonce)
    \/ Mine
    \/ AppendClone

SpecPow == Init /\ [][NextPow]_vars

----------------------------------------------------------------------------
(* SpecTime: mined single-transaction blocks appended on the head, each    *)
(* stamped with any time 0..MaxClock: a delta of 0 pins the ratio at 0.25, *)
(* a delta of 7 or more at 4.0, a time before last_timestamp wraps or      *)
(* panics.                                                                 *)

AppendAt(now, tx) ==
    AppendBlock(get_last_block_hash(ledger), now, <<tx>>, TRUE, "fresh")

\* each block creates one account that does not exist yet
FreshIds == AccountIds \ DOMAIN accounts

NextTime ==
    \E now \in 0..MaxClock :
        /\ FreshIds # {}
        /\ AppendAt(now, CreateTx(CHOOSE id \in FreshIds : TRUE))

SpecTime == Init /\ [][NextTime]_vars

----------------------------------------------------------------------------
(* Hash values: 64 hex digits, z zeros, then the digits of head, then fill. *)
(* Among the hashes on which hash_to_bits returns, the compact value is    *)
(* least for 59 zeros, a 1 and zeros.                                      *)

HashOf(z, head, fill) ==
    [i \in 1..HASH_LENGTH |->
        IF i <= z THEN 0
        ELSE IF i <= z + Len(head) THEN head[i - z]
        ELSE fill]

Heads == {<<1>>, <<7, 10>>, <<3, 3, 3, 10, 1>>, <<15, 15, 15, 15, 15, 0>>}

Hashes ==
    {HashOf(z, head, fill) : z \in 0..HASH_LENGTH, head \in Heads,
                             fill \in {0, 15}}

----------------------------------------------------------------------------
(* SpecBits: hash_to_bits called on any hash of Hashes.                    *)

HashToBits(hash) ==
    /\ probe' = Some([hash |-> hash,
                      out |-> IF hash_to_bits_panics(hash) THEN Panic
                              ELSE hash_to_bits(hash)])
    /\ UNCHANGED <<blocks, accounts, transaction_pool, current_target,
                   last_timestamp, overflow_checks, candidate, result, trace,
                   pre, submitted>>

NextBits == \E hash \in Hashes : HashToBits(hash)

SpecBits == Init /\ [][NextBits]_vars

----------------------------------------------------------------------------
(* SpecCheck: check_target called once, on any target of Targets and any   *)
(* hash of Hashes.                                                         *)
(* 251868066 is one above the compact value of the regression hash,        *)
(* 50397185 one above the least compact value hash_to_bits returns.        *)

Targets == {MAX_TARGET, 251868066, 50397185}

\* check_target(target, hash) as a call: "true", "false", or a panic where
\* hash_to_bits panics
check_target_call(target, hash) ==
    IF hash_to_bits_panics(hash) THEN Panic
    ELSE IF check_target(target, hash) THEN "true" ELSE "false"

\* one call in a behaviour: check_target reads and writes no state
CheckTarget(target, hash) ==
    /\ probe = None
    /\ probe' = Some([target |-> target, hash |-> hash,
                      out |-> check_target_call(target, hash)])
    /\ UNCHANGED <<blocks, accounts, transaction_pool, current_target,
                   last_timestamp, overflow_checks, candidate, result, trace,
                   pre, submitted>>

NextCheck == \E target \in Targets, hash \in Hashes : CheckTarget(target, hash)

SpecCheck == Init /\ [][NextCheck]_vars

----------------------------------------------------------------------------
(* SpecSupply: a genesis block that creates alice and bob and mints to      *)
(* both, as the block of utils::create_block_and_tx does, then blocks of   *)
(* transfers, of a mint, of a transfer to an account that does not exist.   *)

GenesisTxs(a, b) ==
    <<CreateTx("alice"), CreateTx("bob"), MintTx("alice", a), MintTx("bob", b)>>

SupplyBlocks ==
    {<<TransferTx("alice", "bob", 1)>>,
     <<TransferTx("alice", "bob", 2)>>,
     <<TransferTx("bob", "alice", 1)>>,
     <<TransferTx("alice", "alice", 1)>>,
     <<MintTx("alice", 1)>>,
     <<TransferTx("alice", "bob", 1), MintTx("bob", 1)>>,
     <<TransferTx("bob", "alice", 1), TransferTx("alice", "carol", 1)>>}

AppendWithTx(transactions) ==
    /\ result # Panic
    /\ Len(blocks) < MaxBlocks
    /\ mining(add_transactions(Block_new(get_last_block_hash(ledger),
                                         last_timestamp), transactions, 1),
              current_target) # None
    /\ Returned(append_block_with_tx(ledger, transactions, last_timestamp,
                                     overflow_checks))
    /\ UNCHANGED <<candidate, submitted>>

NextSupply ==
    \/ \E a, b \in 1..MaxBalance :
           Len(blocks) = 0 /\ AppendWithTx(GenesisTxs(a, b))
    \/ \E transactions \in SupplyBlocks :
           Len(blocks) >= 1 /\ AppendWithTx(transactions)

SpecSupply == Init /\ [][NextSupply]_vars

----------------------------------------------------------------------------
(* SpecRetarget: the retarget of append_block applied to current_target     *)
(* again and again, with any timestamp delta, from the target of            *)
(* Blockchain::new on: every target a sequence of retargets can give.       *)

Retarget(actual) ==
    /\ current_target' =
           next_target(current_target, FALSE, retarget_ratio(actual, FALSE))
    /\ pre' = ledger
    /\ UNCHANGED <<blocks, accounts, transaction_pool, last_timestamp,
                   overflow_checks, candidate, result, trace, submitted,
                   probe>>

\* timestamp deltas for the ratios 0.25, 2.0 and 4.0
RetargetDeltas == {0, 3, MaxClock}

NextRetarget == \E actual \in RetargetDeltas : Retarget(actual)

SpecRetarget == Init /\ [][NextRetarget]_vars

----------------------------------------------------------------------------
(* SpecAccounts: as Spec, with blocks that create an id a second time      *)
(* under another key.                                                      *)

AccountTxs ==
    {signed(Transaction_new(CreateAccount("alice", pk), Some("alice")), pk) :
        pk \in PublicKeys}
        \cup {CreateTx("bob"), MintTx("alice", 1)}

NextAccounts ==
    \/ NewBlock
    \/ \E tx \in AccountTxs : AddTransaction(tx)
    \/ MineAndAppend

SpecAccounts == Init /\ [][NextAccounts]_vars

----------------------------------------------------------------------------
(* SpecLedger: blocks built on the head, mined or not, clones of them      *)
(* appended, and between these the &self methods of the Ledger called.     *)

\* a method that takes &self returned out
Read(call, out) ==
    /\ result # Panic
    /\ probe' = Some([call |-> call, out |-> out])
    /\ result' = "read"
    /\ trace' = <<>>
    /\ pre' = ledger
    /\ UNCHANGED <<blocks, accounts, transaction_pool, current_target,
                   last_timestamp, overflow_checks, candidate, submitted>>

Validate == Read("validate", validate(ledger))

GetLastBlockHash == Read("get_last_block_hash", get_last_block_hash(ledger))

GetAccountById(account_id) ==
    Read("get_account_by_id", get_account_by_id(accounts, account_id))

NextLedger ==
    \/ \E tx \in PowTxs : PowNewBlock(tx)
    \/ Mine
    \/ AppendClone
    \/ Validate
    \/ GetLastBlockHash
    \/ \E account_id \in AccountIds : GetAccountById(account_id)

SpecLedger == Init /\ [][NextLedger]_vars

----------------------------------------------------------------------------
(* SpecSign: a transaction is built, then signed and signed again, with    *)
(* any key, over its own hash or over another message.                     *)

NewTransaction(data, from) ==
    /\ LET tx == Transaction_new(data, from)
       IN  probe' = Some([tx |-> tx, unsigned_hash |-> Transaction_hash(tx)])
    /\ UNCHANGED <<blocks, accounts, transaction_pool, current_target,
                   last_timestamp, overflow_checks, candidate, result, trace,
                   pre, submitted>>

\* tx.signature = Some(keypair.sign(message))
SetSignature(public_key, own) ==
    /\ probe # None
    /\ LET tx == probe[1].tx
           message == IF own THEN Transaction_hash(tx) ELSE other_message(tx)
       IN  probe' = Some([probe[1] EXCEPT
                             !.tx.signature = Some(sign(public_key, message))])
    /\ UNCHANGED <<blocks, accounts, transaction_pool, current_target,
                   last_timestamp, overflow_checks, candidate, result, trace,
                   pre, submitted>>

NextSign ==
    \/ \E data \in TxData, from \in {None} \cup {Some(id) : id \in TxIds} :
           NewTransaction(data, from)
    \/ \E public_key \in PublicKeys, own \in BOOLEAN :
           SetSignature(public_key, own)

SpecSign == Init /\ [][NextSign]_vars

----------------------------------------------------------------------------
(* SpecOrder: blocks that fail several checks of append_block at once: any *)
(* nonce, any cached hash, no transactions or transactions that fail.      *)

OrderTxs == {CreateTx("alice"), MintTx("alice", MaxAmount)}

\* bc.append_block(block): the block is moved into the call
SubmitBlock ==
    /\ candidate # None
    /\ Returned(append_block(ledger, candidate[1], overflow_checks))
    /\ submitted' = candidate
    /\ candidate' = None

NextOrder ==
    \/ NewBlock
    \/ \E tx \in OrderTxs : AddTransaction(tx)
    \/ \E nonce \in 0..MaxNonce : SetNonce(nonce)
    \/ \E cached \in {"none", "stale"} : Forge(cached)
    \/ SubmitBlock

SpecOrder == Init /\ [][NextOrder]_vars

----------------------------------------------------------------------------
(* The compact form of the target and the retarget on it (target_adjust).  *)
(* A compact form is a string of hex digits: two for the exponent, the     *)
(* rest for the coefficient.                                               *)

MAX_COMPACT_FORM == <<1, 15, 15, 15, 15, 15, 15, 0>>

RECURSIVE to_hex(_)
\* format!("{:x}", n)
to_hex(n) == IF n < 16 THEN <<n>> ELSE Append(to_hex(n \div 16), n % 16)

compact_value(compact_form) == from_str_radix(compact_form, Len(compact_form))

\* the exponent and the coefficient after the coefficient was multiplied by
\* ratio = <<num, den>> and ceiled: borrow on COEFFICIENT_LENGTH - 1 digits,
\* carry on more than COEFFICIENT_LENGTH
adjust_coefficient(compact_form, ratio) ==
    LET exponent == from_str_radix(compact_form, 2)
        digits == SubSeq(compact_form, 3, Len(compact_form))
        coefficient == from_str_radix(digits, Len(digits))
        shrinking == ratio[1] < ratio[2]
        scaled == IF Len(digits) >= 3 /\ digits[3] = 0 /\ shrinking
                  THEN coefficient * 16 ELSE coefficient
        new_coefficient == ceil_mul(scaled, ratio[1], ratio[2])
        rendered == to_hex(new_coefficient)
    IN  IF Len(rendered) = COEFFICIENT_LENGTH - 1
        THEN [exponent |-> exponent - 1, coefficient |-> rendered \o <<0>>]
        ELSE IF Len(rendered) > COEFFICIENT_LENGTH
        THEN [exponent |-> exponent + 1,
              coefficient |->
                  <<0>> \o SubSeq(rendered, 1, COEFFICIENT_LENGTH - 1)]
        ELSE [exponent |-> exponent, coefficient |-> rendered]

\* mutant of target_adjust: the clamp resets current_target only
target_adjust_clamps_target_only(compact_form, ratio) ==
    LET new == adjust_coefficient(compact_form, ratio)
        new_form == <<new.exponent \div 16, new.exponent % 16>>
                        \o new.coefficient
    IN  IF compact_value(new_form) >= MAX_TARGET
        THEN [compact_form |-> new_form, current_target |-> MAX_TARGET]
        ELSE [compact_form |-> new_form,
              current_target |-> compact_value(new_form)]

\* the new compact form and its numeric value, both clamped to the maximum
target_adjust(compact_form, ratio) ==
    LET new == adjust_coefficient(compact_form, ratio)
        new_form == <<new.exponent \div 16, new.exponent % 16>>
                        \o new.coefficient
    IN  IF compact_value(new_form) >= MAX_TARGET
        THEN [compact_form |-> MAX_COMPACT_FORM, current_target |-> MAX_TARGET]
        ELSE [compact_form |-> new_form,
              current_target |-> compact_value(new_form)]

(* SpecCompact: a Ledger that keeps compact_form beside current_target and  *)
(* retargets MaxRetargets times, each time with any timestamp delta.        *)

InitCompact ==
    /\ blocks = Blockchain_new.blocks
    /\ accounts = Blockchain_new.accounts
    /\ transaction_pool = Blockchain_new.transaction_pool
    /\ current_target = Blockchain_new.current_target
    /\ last_timestamp = Blockchain_new.last_timestamp
    /\ overflow_checks \in BOOLEAN
    /\ candidate = None
    /\ result = "new"
    /\ trace = <<>>
    /\ pre = Blockchain_new
    /\ submitted = None
    /\ probe = Some([compact_form |-> MAX_COMPACT_FORM, retargets |-> 0])

TargetAdjust(actual) ==
    /\ probe[1].retargets < MaxRetargets
    /\ LET new == target_adjust(probe[1].compact_form,
                                retarget_ratio(actual, FALSE))
       IN  /\ current_target' = new.current_target
           /\ probe' = Some([compact_form |-> new.compact_form,
                             retargets |-> probe[1].retargets + 1])
    /\ pre' = ledger
    /\ UNCHANGED <<blocks, accounts, transaction_pool, last_timestamp,
                   overflow_checks, candidate, result, trace, submitted>>

NextCompact == \E actual \in 0..MaxClock : TargetAdjust(actual)

SpecCompact == InitCompact /\ [][NextCompact]_vars

----------------------------------------------------------------------------
(* SpecWorld: the WorldState methods of Blockchain called directly, any    *)
(* number of times, on any account table.                                  *)

CreateAccountCall(account_id, account_type, public_key) ==
    /\ LET r == create_account(accounts, account_id, account_type, public_key)
       IN  /\ accounts' = r.accounts
           /\ result' = r.res
    /\ probe' = Some([account_id |-> account_id, account_type |-> account_type,
                      public_key |-> public_key])
    /\ trace' = <<>>
    /\ pre' = ledger
    /\ UNCHANGED <<blocks, transaction_pool, current_target, last_timestamp,
                   overflow_checks, candidate, submitted>>

NextWorld ==
    \E account_id \in AccountIds, account_type \in AccountTypes,
       public_key \in PublicKeys :
        CreateAccountCall(account_id, account_type, public_key)

SpecWorld == InitTx /\ [][NextWorld]_vars

----------------------------------------------------------------------------
(* What the claims speak of *)

RECURSIVE SumBalances(_)
SumBalances(accts) ==
    IF DOMAIN accts = {} THEN 0
    ELSE LET id == CHOOSE x \in DOMAIN accts : TRUE
         IN  accts[id].balance
                 + SumBalances([y \in DOMAIN accts \ {id} |-> accts[y]])

Err(res) ==
    res \notin {Ok, Panic, "new", "tampered", "forged", "mined", "read"}
TxError(res) == "Error during tx execution: " \o res

\* the last call was an append_block that accepted the block
Appended == result = Ok /\ Len(blocks) = Len(pre.blocks) + 1

\* the numeric value of the compact form of a hash
bits_value(hash) == from_str_radix(hash_to_bits(hash), 2 + COEFFICIENT_LENGTH)

\* the last call ran transactions and the last one it ran returned an error
TxFailed == trace # <<>> /\ Err(trace[Len(trace)].res)

Is(e, kind) == e.tx.data.kind = kind
Succeeded(e, kind) == Is(e, kind) /\ e.res = Ok

\* the signature of e.tx verifies over the transaction's own hash: against the
\* key in the payload (CreateAccount), against the sender's registered key
\* (Transfer)
ValidSignature(e) ==
    /\ e.tx.signature # None
    /\ IF Is(e, "CreateAccount")
       THEN Signature_verify(e.tx.data.public_key, Transaction_hash(e.tx),
                             e.tx.signature[1])
       ELSE /\ e.tx.from # None
            /\ e.tx.from[1] \in DOMAIN e.before
            /\ Signature_verify(e.before[e.tx.from[1]].public_key,
                                Transaction_hash(e.tx), e.tx.signature[1])

----------------------------------------------------------------------------
\* C1: when a transaction of the block fails during append_block, whatever
\* its position and whatever the transactions before it did, the account
\* table after the call is the table before the call: the same account ids,
\* each with the same balance.
C1_AtomicRollback ==
    TxFailed =>
        /\ result = TxError(trace[Len(trace)].res)
        /\ DOMAIN accounts = DOMAIN pre.accounts
        /\ \A id \in DOMAIN accounts :
               accounts[id].balance = pre.accounts[id].balance
        /\ accounts = pre.accounts

\* a block failed at its third transaction or later, after one of its
\* transactions created an account and another moved a balance
C1_Witness ==
    /\ TxFailed
    /\ Len(trace) >= 3
    /\ \E i \in 1..(Len(trace) - 1) :
           Succeeded(trace[i], "CreateAccount")
               /\ DOMAIN trace[i].after # DOMAIN pre.accounts
    /\ \E i \in 1..(Len(trace) - 1) :
           Succeeded(trace[i], "Transfer") /\ trace[i].after # trace[i].before
    /\ trace[Len(trace)].before # pre.accounts

C2_ReachedInvalidHash == result = "Block has invalid hash" /\ Len(blocks) >= 1
C2_ReachedTargetNotMet ==
    result = "Block hash > current target!" /\ current_target < MAX_TARGET
C2_ReachedEmptyBlock == result = "Block has 0 transactions." /\ Len(blocks) >= 1

\* C3: every successful Transfer takes amount from the sender and
\* gives amount to the receiver, the sum of balances unchanged; every
\* successful MintInitialSupply adds amount to the receiver and to the sum.
C3_TransferConservation ==
    \A i \in DOMAIN trace :
        LET e == trace[i]
            to == e.tx.data.to
            amount == e.tx.data.amount
        IN  /\ Succeeded(e, "Transfer") =>
                /\ e.after[e.tx.from[1]].balance
                       = e.before[e.tx.from[1]].balance - amount
                /\ e.after[to].balance = e.before[to].balance + amount
                /\ SumBalances(e.after) = SumBalances(e.before)
            /\ Succeeded(e, "MintInitialSupply") =>
                /\ e.after[to].balance = e.before[to].balance + amount
                /\ SumBalances(e.after) = SumBalances(e.before) + amount

\* C4: with sender and receiver both present and a valid signature, a
\* Transfer is refused for insufficient funds exactly when the sender's
\* balance is strictly less than amount; with balance = amount it succeeds.
C4_BalanceThreshold ==
    \A i \in DOMAIN trace :
        LET e == trace[i]
        IN  ( /\ Is(e, "Transfer")
              /\ e.tx.from # None
              /\ e.tx.from[1] \in DOMAIN e.before
              /\ e.tx.data.to \in DOMAIN e.before
              /\ ValidSignature(e) ) =>
                LET balance == e.before[e.tx.from[1]].balance
                IN  /\ (e.res = "Sender haven't enough money!")
                           <=> (balance < e.tx.data.amount)
                    /\ balance = e.tx.data.amount => e.res = Ok

\* C5: a Transfer whose sender is unset, whose sender account does not
\* exist or whose receiver account does not exist is rejected, and no
\* account is credited or debited by it.
C5_RejectedTransferMovesNothing ==
    \A i \in DOMAIN trace :
        LET e == trace[i]
        IN  ( /\ Is(e, "Transfer")
              /\ \/ e.tx.from = None
                 \/ e.tx.from[1] \notin DOMAIN e.before
                 \/ e.tx.data.to \notin DOMAIN e.before ) =>
                /\ Err(e.res)
                /\ e.after = e.before

\* a sender with the funds for it sent a positive amount to an account that
\* does not exist
C5_Witness ==
    \E i \in DOMAIN trace :
        LET e == trace[i]
        IN  /\ Is(e, "Transfer")
            /\ e.tx.from # None
            /\ e.tx.from[1] \in DOMAIN e.before
            /\ e.before[e.tx.from[1]].balance > e.tx.data.amount
            /\ e.tx.data.amount > 0
            /\ e.tx.data.to \notin DOMAIN e.before
            /\ e.res = "Receiver doesn't exist"

\* C6: a MintInitialSupply transaction run by append_block on a chain that
\* already holds a block is rejected, whether or not its account exists,
\* and the block with it; a mint succeeds only on the empty chain.
C6_GenesisOnlyMinting ==
    \A i \in DOMAIN trace :
        LET e == trace[i]
        IN  /\ (Is(e, "MintInitialSupply") /\ Len(pre.blocks) >= 1) =>
                /\ e.res = "Initial supply can be minted only in genesis block."
                /\ result = TxError(e.res)
                /\ blocks = pre.blocks
                /\ accounts = pre.accounts
            /\ Succeeded(e, "MintInitialSupply") => Len(pre.blocks) = 0

\* a mint to an existing account was refused on a chain that holds a block
C6_Witness ==
    /\ Len(pre.blocks) >= 1
    /\ \E i \in DOMAIN trace :
           /\ Is(trace[i], "MintInitialSupply")
           /\ trace[i].tx.data.to \in DOMAIN trace[i].before
           /\ trace[i].res # Ok

\* C7: execute rejects every CreateAccount or Transfer whose signature is
\* absent or does not verify over the transaction's own hash; no account is
\* created and no balance moves without a valid signature.
C7_SignatureGating ==
    \A i \in DOMAIN trace :
        LET e == trace[i]
        IN  ( /\ Is(e, "CreateAccount") \/ Is(e, "Transfer")
              /\ ~ValidSignature(e) ) =>
                /\ e.res # Ok
                /\ e.after = e.before

\* C8: CreateAccount(id, public_key) is rejected when no sender is set, and
\* when the sender account does not exist and the sender is not id; it is
\* accepted, given a valid signature and a free id, when the sender is id.
C8_SelfRegistration ==
    \A i \in DOMAIN trace :
        LET e == trace[i]
            id == e.tx.data.to
        IN  Is(e, "CreateAccount") =>
                /\ e.tx.from = None => e.res # Ok
                /\ ( /\ e.tx.from # None
                     /\ e.tx.from[1] \notin DOMAIN e.before
                     /\ e.tx.from[1] # id ) => e.res # Ok
                /\ ( /\ e.tx.from = Some(id)
                     /\ ValidSignature(e)
                     /\ id \notin DOMAIN e.before ) => e.res = Ok

\* C9: in every reachable Ledger state the oldest block has no prev_hash and
\* every other block's prev_hash is the hash of the block appended before
\* it, so validate() returns Ok.
C9_ChainLinkage ==
    /\ Len(blocks) >= 1 => blocks[1].prev_hash = None
    /\ \A i \in 2..Len(blocks) :
           blocks[i].prev_hash = Some(Block_hash(blocks[i - 1]))
    /\ validate(ledger) = Ok

\* C10: when every block is created on get_last_block_hash() of the Ledger
\* and appended before another is created, validate() returns Ok for the
\* chain of any length, the empty one and the genesis-only one included.
C10_ValidateAcceptsBuiltChain == validate(ledger) = Ok

\* a chain of three blocks, each built on the head before it
C10_Witness ==
    /\ Len(blocks) >= 3
    /\ blocks[1].prev_hash = None
    /\ \A i \in 2..Len(blocks) :
           blocks[i].prev_hash = Some(Block_hash(blocks[i - 1]))
    /\ validate(ledger) = Ok

\* C11: from a chain that validate() accepts, overwriting in place the data
\* of one stored transaction of any one block with different data, no hash
\* recomputed, makes validate() return an error.
C11_TamperDetected ==
    result = "tampered" => validate(pre) = Ok /\ Err(validate(ledger))

\* the middle block of a chain of three was tampered with
C11_Witness ==
    /\ result = "tampered"
    /\ Len(blocks) = 3
    /\ blocks[2] # pre.blocks[2]
    /\ blocks[2].hash = pre.blocks[2].hash

\* C12: right after Block::new, set_nonce and add_transaction the cached hash
\* is Some(the recomputed hash) and verify() is true; a block whose hash
\* field is None or differs from the recomputed hash has verify() false.
C12_BlockSelfVerification ==
    candidate # None =>
        LET b == candidate[1]
        IN  /\ result = Ok => b.hash = Some(Block_hash(b)) /\ verify(b)
            /\ b.hash # Some(Block_hash(b)) => ~verify(b)

\* a block after a set_nonce and two add_transaction calls
C12_Witness ==
    /\ candidate # None
    /\ result = Ok
    /\ candidate[1].nonce > 0
    /\ Len(candidate[1].transactions) >= 2
    /\ verify(candidate[1])

\* blocks with a forged and with an absent cached hash, verify() false
C12_ReachedForged ==
    /\ candidate # None
    /\ result = "forged"
    /\ candidate[1].hash # None
    /\ ~verify(candidate[1])
C12_ReachedAbsent ==
    /\ candidate # None
    /\ result = "forged"
    /\ candidate[1].hash = None
    /\ ~verify(candidate[1])

\* C13: append_block returns Ok only if the numeric value of
\* hash_to_bits(block.hash) is strictly less than current_target as it is
\* when the call is made; a hash whose value equals the target is rejected,
\* and so is a block mined against an earlier, easier target once the
\* target is at or below its compact value.
C13_ProofOfWorkGating ==
    /\ Appended =>
           bits_value(Hex(blocks[Len(blocks)].hash[1])) < pre.current_target
    /\ ( /\ submitted # None
         /\ Appended \/ Err(result)
         /\ verify(submitted[1])
         /\ bits_value(Hex(submitted[1].hash[1])) >= pre.current_target ) =>
           /\ result = "Block hash > current target!"
           /\ ledger = pre

\* a block was accepted by a Ledger whose target had tightened
C13_Witness ==
    /\ Appended
    /\ pre.current_target < MAX_TARGET
    /\ bits_value(Hex(blocks[Len(blocks)].hash[1])) < pre.current_target

\* a block whose compact value equals the target was rejected
C13_ReachedEquality ==
    /\ result = "Block hash > current target!"
    /\ submitted # None
    /\ bits_value(Hex(submitted[1].hash[1])) = current_target

\* a block mined against MAX_TARGET was rejected after the target tightened
C13_ReachedStaleMined ==
    /\ result = "Block hash > current target!"
    /\ submitted # None
    /\ submitted[1] = mining(submitted[1], MAX_TARGET)[1]
    /\ current_target < MAX_TARGET

\* C14: in every reachable state every block of the chain holds at least one
\* transaction; a block with zero transactions is rejected by append_block
\* and the chain stays as it was.
C14_NoEmptyBlock ==
    /\ \A i \in 1..Len(blocks) : Len(blocks[i].transactions) >= 1
    /\ result = "Block has 0 transactions." => blocks = pre.blocks

C14_Witness ==
    /\ result = "Block has 0 transactions."
    /\ blocks = pre.blocks
    /\ Len(blocks) >= 1
    /\ \A i \in 1..Len(blocks) : Len(blocks[i].transactions) >= 1

\* C15: in every reachable state current_target is at most MAX_TARGET,
\* whatever the timestamp deltas of the appended blocks (ratio pinned at
\* 0.25, pinned at 4.0, or in between).
C15_DifficultyClamp == current_target <= MAX_TARGET

\* a retarget at ratio 4.0 from a target below MAX_TARGET was clamped
C15_Witness ==
    /\ Appended
    /\ pre.current_target < MAX_TARGET
    /\ last_timestamp >= pre.last_timestamp + 7
    /\ pre.current_target * 4 > MAX_TARGET
    /\ current_target = MAX_TARGET

\* two retargets at ratio 0.25
C15_ReachedQuarterTwice ==
    /\ Appended
    /\ Len(blocks) = 3
    /\ last_timestamp = 0
    /\ current_target < pre.current_target
    /\ pre.current_target < MAX_TARGET

\* C16: when mining returns, the block's nonce is the smallest nonce >= 1
\* whose block hash clears current_target, the cached hash is fresh and
\* clears that target, the block's transactions, prev_hash and timestamp and
\* the Ledger are as before, and append_block of the block passes the hash
\* check and the target check.
C16_MiningPostcondition ==
    result = "mined" =>
        LET block == candidate[1]
            before == submitted[1]
        IN  /\ block.nonce >= 1
            /\ verify(block)
            /\ bits_value(Hex(block.hash[1])) < current_target
            /\ \A nonce \in 1..(block.nonce - 1) :
                   bits_value(Hex(Block_hash([before EXCEPT !.nonce = nonce])))
                       >= current_target
            /\ block.transactions = before.transactions
            /\ block.prev_hash = before.prev_hash
            /\ block.timestamp = before.timestamp
            /\ ledger = pre
            /\ append_block(ledger, block, overflow_checks).result
                   \notin {"Block has invalid hash",
                           "Block hash > current target!"}

\* mining returned after passing over at least one nonce, at a tightened target
C16_Witness ==
    /\ result = "mined"
    /\ candidate[1].nonce >= 2
    /\ current_target < MAX_TARGET
    /\ submitted[1].nonce # candidate[1].nonce

\* C17: mining always succeeds; in particular for every reachable
\* current_target there is a hash value that clears it (check_target is
\* true on it).
C17_TargetCanBeCleared ==
    \E hash \in Hashes :
        /\ ~hash_to_bits_panics(hash)
        /\ check_target(current_target, hash)

\* C18: the transactions of a block run in block order against the live
\* table: transaction i starts from the table left by transactions 1..i-1.
\* In a genesis block CreateAccount(x) then MintInitialSupply{to: x, amount}
\* succeeds and leaves x with balance amount; the reverse order fails with
\* "Error during tx execution: Invalid account." and leaves the Ledger alone.
C18_InOrderExecution ==
    (submitted # None /\ (Appended \/ Err(result))) =>
        LET txs == submitted[1].transactions
            is_genesis == Len(pre.blocks) = 0
        IN  /\ Len(trace) <= Len(txs)
            /\ \A i \in DOMAIN trace :
                   /\ trace[i].tx = txs[i]
                   /\ trace[i].before =
                          IF i = 1 THEN pre.accounts ELSE trace[i - 1].after
                   /\ i < Len(trace) => trace[i].res = Ok
            /\ Appended => /\ Len(trace) = Len(txs)
                           /\ accounts = trace[Len(trace)].after
            /\ \A x \in AccountIds :
                   /\ (is_genesis /\ txs = <<CreateTx(x), MintTx(x, MaxAmount)>>)
                         => /\ Appended
                            /\ accounts[x].balance = MaxAmount
                   /\ (is_genesis /\ txs = <<MintTx(x, MaxAmount), CreateTx(x)>>)
                         => /\ result = "Error during tx execution: Invalid account."
                            /\ ledger = pre

\* create-then-mint in a genesis block was accepted
C18_Witness ==
    /\ Appended
    /\ Len(blocks) = 1
    /\ submitted # None
    /\ submitted[1].transactions =
           <<CreateTx("alice"), MintTx("alice", MaxAmount)>>
    /\ accounts["alice"].balance = MaxAmount

\* mint-then-create in a genesis block was rejected
C18_ReachedReverse ==
    /\ result = "Error during tx execution: Invalid account."
    /\ Len(pre.blocks) = 0
    /\ submitted # None
    /\ submitted[1].transactions =
           <<MintTx("alice", MaxAmount), CreateTx("alice")>>

\* C19: get_last_block_hash() is None exactly when no block has been
\* appended; after a successful append_block it is the hash of the block
\* just accepted; a failed append_block leaves its result as it was.
C19_LastBlockHash ==
    /\ get_last_block_hash(ledger) = None <=> Len(blocks) = 0
    /\ (submitted # None /\ Appended) =>
           /\ get_last_block_hash(ledger) = submitted[1].hash
           /\ get_last_block_hash(ledger) = Some(Block_hash(submitted[1]))
    /\ Err(result) => get_last_block_hash(ledger) = get_last_block_hash(pre)

\* a second block was accepted: the result moved from one hash to another
C19_Witness ==
    /\ submitted # None
    /\ Appended
    /\ Len(blocks) >= 2
    /\ get_last_block_hash(ledger) = submitted[1].hash
    /\ get_last_block_hash(ledger) # get_last_block_hash(pre)

\* a block was rejected on a chain that has a head
C19_ReachedFailedAppend ==
    /\ submitted # None
    /\ Err(result)
    /\ Len(blocks) >= 1
    /\ submitted[1].hash # get_last_block_hash(ledger)
    /\ get_last_block_hash(ledger) = get_last_block_hash(pre)

\* C20: for a hash whose first non-zero digit is at index i, hash_to_bits
\* returns the two hex digits of ceil((64 - i) / 2) followed by the first
\* COEFFICIENT_LENGTH digits of hash[i..], left-padded with one 0 when its
\* length is odd.
C20_CompactEncoding ==
    (probe # None /\ \E j \in 1..HASH_LENGTH : probe[1].hash[j] # 0) =>
        LET hash == probe[1].hash
            i == CHOOSE i \in 0..(HASH_LENGTH - 1) :
                     /\ hash[i + 1] # 0
                     /\ \A j \in 1..i : hash[j] = 0
            tail == SubSeq(hash, i + 1, HASH_LENGTH)
            padded == IF Len(tail) % 2 = 1 THEN <<0>> \o tail ELSE tail
            exponent == (HASH_LENGTH - i + 1) \div 2
        IN  /\ probe[1].out # Panic
            /\ probe[1].out = <<exponent \div 16, exponent % 16>>
                                  \o SubSeq(padded, 1, COEFFICIENT_LENGTH)

\* the regression case: 35 zeros, 333a1, zeros gives "0f0333a1" = 251868065
C20_ReachedRegression ==
    /\ probe # None
    /\ probe[1].hash = HashOf(35, <<3, 3, 3, 10, 1>>, 0)
    /\ probe[1].out = <<0, 15, 0, 3, 3, 3, 10, 1>>
    /\ from_str_radix(probe[1].out, 8) = 251868065

\* hash_to_bits panicked on a hash that has a non-zero digit
C20_ReachedPanic ==
    /\ probe # None
    /\ probe[1].out = Panic
    /\ \E j \in 1..HASH_LENGTH : probe[1].hash[j] # 0

\* wherever hash_to_bits returns, its value on a hash with a non-zero digit at
\* index i < 60 is the exponent and coefficient above; it returns on no hash
\* whose first non-zero digit is at index 60 or later
C20_ReturnsBelowSixty ==
    (probe # None /\ \E j \in 1..HASH_LENGTH : probe[1].hash[j] # 0) =>
        LET hash == probe[1].hash
            i == CHOOSE i \in 0..(HASH_LENGTH - 1) :
                     /\ hash[i + 1] # 0
                     /\ \A j \in 1..i : hash[j] = 0
            tail == SubSeq(hash, i + 1, HASH_LENGTH)
            padded == IF Len(tail) % 2 = 1 THEN <<0>> \o tail ELSE tail
            exponent == (HASH_LENGTH - i + 1) \div 2
        IN  /\ probe[1].out = Panic <=> i >= HASH_LENGTH - 4
            /\ probe[1].out # Panic =>
                   probe[1].out = <<exponent \div 16, exponent % 16>>
                                     \o SubSeq(padded, 1, COEFFICIENT_LENGTH)

\* C21: create_account(id, type, key) on a table that holds id returns the
\* "already exist" error and leaves the table as it was; otherwise it
\* returns Ok and the table gains exactly id, with balance 0 and the given
\* type and key, every other account unchanged.
C21_CreateAccount ==
    probe # None =>
        LET id == probe[1].account_id
        IN  IF id \in DOMAIN pre.accounts
            THEN /\ result = "AccountId already exist: " \o id
                 /\ accounts = pre.accounts
            ELSE /\ result = Ok
                 /\ DOMAIN accounts = DOMAIN pre.accounts \cup {id}
                 /\ accounts[id] = [account_type |-> probe[1].account_type,
                                    balance |-> 0,
                                    public_key |-> probe[1].public_key]
                 /\ \A other \in DOMAIN pre.accounts :
                        accounts[other] = pre.accounts[other]

\* a Contract account inserted next to an account that holds a balance
C21_Witness ==
    /\ probe # None
    /\ result = Ok
    /\ probe[1].account_type = "Contract"
    /\ probe[1].account_id \notin DOMAIN pre.accounts
    /\ \E other \in DOMAIN pre.accounts : accounts[other].balance > 0

\* the id was taken, by an account with another key and a balance
C21_ReachedAlreadyExists ==
    /\ probe # None
    /\ result = "AccountId already exist: alice"
    /\ accounts["alice"].public_key # probe[1].public_key
    /\ accounts["alice"].balance > 0

\* C22: accounts accumulate: after every call the set of account ids holds
\* the set before the call, and every account that existed keeps its public
\* key and its type; a failing append_block leaves the table it started from.
C22_AccountsAccumulate ==
    /\ DOMAIN pre.accounts \subseteq DOMAIN accounts
    /\ \A id \in DOMAIN pre.accounts :
           /\ accounts[id].public_key = pre.accounts[id].public_key
           /\ accounts[id].account_type = pre.accounts[id].account_type
    /\ Err(result) => accounts = pre.accounts

\* a block that would have re-created alice under another key was rejected
\* after it had created bob: the table is the one before the call
C22_Witness ==
    /\ result = TxError("AccountId already exist: alice")
    /\ Len(trace) >= 2
    /\ "alice" \in DOMAIN accounts
    /\ trace[Len(trace)].tx.data.public_key # accounts["alice"].public_key
    /\ "bob" \in DOMAIN trace[Len(trace)].before
    /\ "bob" \notin DOMAIN accounts
    /\ accounts = pre.accounts

\* a block added an account to a table that held one
C22_ReachedGrowth ==
    /\ Appended
    /\ DOMAIN pre.accounts # {}
    /\ DOMAIN pre.accounts # DOMAIN accounts

\* C23: the retarget subtraction never underflows: every non-genesis block
\* that gets past the hash, target, emptiness and transaction checks of
\* append_block has a timestamp that is at least last_timestamp.
C23_NoTimestampUnderflow ==
    (Len(pre.blocks) >= 1 /\ (Appended \/ result = Panic)) =>
        /\ result # Panic
        /\ last_timestamp >= pre.last_timestamp

\* the subtraction wrapped and the block was appended
C23_ReachedWrap ==
    /\ Appended
    /\ Len(pre.blocks) >= 1
    /\ last_timestamp < pre.last_timestamp
    /\ ~overflow_checks

\* the subtraction panicked
C23_ReachedPanic ==
    /\ result = Panic
    /\ Len(pre.blocks) >= 1
    /\ overflow_checks
    /\ blocks = pre.blocks

\* r = delta / EXPECTED_TIME clamped to [0.25, 4.0], as <<num, den>>
ClampedRatio(delta) ==
    IF 4 * delta * EXPECTED_TIME_DEN < EXPECTED_TIME_NUM THEN <<1, 4>>
    ELSE IF delta * EXPECTED_TIME_DEN > 4 * EXPECTED_TIME_NUM THEN <<4, 1>>
    ELSE <<delta * EXPECTED_TIME_DEN, EXPECTED_TIME_NUM>>

\* min(MAX_TARGET, ceil(old * r[1] / r[2])), the product taken on quotient
\* and remainder
ScaledTarget(old, r) ==
    LET scaled == (old \div r[2]) * r[1]
                      + (((old % r[2]) * r[1] + r[2] - 1) \div r[2])
    IN  IF scaled >= MAX_TARGET THEN MAX_TARGET ELSE scaled

\* the retarget law for the last append, delta being the difference of the
\* timestamps: new = min(MAX_TARGET, ceil(old * r)), and what follows from it
RetargetLaw ==
    LET delta == last_timestamp - pre.last_timestamp
        old == pre.current_target
    IN  /\ current_target = ScaledTarget(old, ClampedRatio(delta))
        /\ current_target <= 4 * old
        /\ current_target >= (old + 3) \div 4
        /\ delta * EXPECTED_TIME_DEN < EXPECTED_TIME_NUM => current_target <= old
        /\ delta * EXPECTED_TIME_DEN > EXPECTED_TIME_NUM => current_target >= old

\* C24: after a successful non-genesis append with delta = block.timestamp -
\* last_timestamp the new current_target is min(MAX_TARGET, ceil(old * r)),
\* r = delta / EXPECTED_TIME clamped to [0.25, 4.0]: at most 4 times and at
\* least a quarter of the old one, not larger when delta < EXPECTED_TIME, not
\* smaller when delta > EXPECTED_TIME.
C24_RetargetBounds == (Appended /\ Len(pre.blocks) >= 1) => RetargetLaw

\* the law holds for every append whose timestamp is not before last_timestamp
C24_BoundsWithoutUnderflow ==
    (Appended /\ Len(pre.blocks) >= 1 /\ last_timestamp >= pre.last_timestamp)
        => RetargetLaw

\* a block stamped before last_timestamp was appended and the target grew
C24_ReachedGrowthOnNegativeDelta ==
    /\ Appended
    /\ Len(pre.blocks) >= 1
    /\ last_timestamp < pre.last_timestamp
    /\ current_target > pre.current_target

\* C25: current_target starts at MAX_TARGET and is changed only by a
\* successful append_block of a non-genesis block: the genesis block leaves it
\* at MAX_TARGET, and failed appends, mining, validate, get_last_block_hash
\* and account lookups leave it as it was.
C25_TargetFrame ==
    /\ Len(blocks) <= 1 => current_target = MAX_TARGET
    /\ current_target # pre.current_target =>
           (Appended /\ Len(pre.blocks) >= 1)
    /\ (Err(result) \/ result \in {"new", "mined", "read"}) =>
           current_target = pre.current_target

\* validate was called after a retarget had tightened the target
C25_Witness ==
    /\ current_target < MAX_TARGET
    /\ current_target = pre.current_target
    /\ result = "read"
    /\ probe[1].call = "validate"

C25_ReachedFailedAppend ==
    Err(result) /\ current_target < MAX_TARGET

C25_ReachedMined ==
    result = "mined" /\ current_target < MAX_TARGET

C25_ReachedRetarget ==
    Appended /\ current_target # pre.current_target

\* C26: whenever the chain is non-empty, last_timestamp is the timestamp of
\* the chain head; it changes only in a successful append_block, and the
\* retarget of that call is computed from the value it had before.
C26_LastTimestamp ==
    /\ Len(blocks) >= 1 => last_timestamp = blocks[Len(blocks)].timestamp
    /\ last_timestamp # pre.last_timestamp => Appended
    /\ (Appended /\ Len(pre.blocks) >= 1) =>
           current_target =
               ScaledTarget(pre.current_target,
                            IF last_timestamp < pre.last_timestamp
                            THEN <<4, 1>>
                            ELSE ClampedRatio(last_timestamp
                                                  - pre.last_timestamp))

\* a second block with a later timestamp was accepted
C26_Witness ==
    /\ Appended
    /\ Len(blocks) = 2
    /\ last_timestamp > pre.last_timestamp
    /\ last_timestamp = blocks[2].timestamp
    /\ blocks[1].timestamp = pre.last_timestamp

\* an append failed on a chain whose head carries a timestamp other than 0
C26_ReachedFailedAppend ==
    /\ Err(result)
    /\ Len(blocks) >= 1
    /\ last_timestamp >= 1

\* the blocks that differ from block in the one field named
OtherNonce(block) ==
    {[block EXCEPT !.nonce = nonce] : nonce \in (0..MaxNonce) \ {block.nonce}}
OtherTimestamp(block) ==
    {[block EXCEPT !.timestamp = t] : t \in (0..MaxTime) \ {block.timestamp}}
OtherPrevHash(block) ==
    {[block EXCEPT !.prev_hash = prev_hash] :
        prev_hash \in {None, Some(ForeignHash)} \ {block.prev_hash}}
OtherTransactions(block) ==
    {[block EXCEPT !.transactions = txs] :
        txs \in SeqsUpTo(BlockTxs, MaxTxs) \ {block.transactions}}

\* C27: two blocks that differ in exactly one of nonce, timestamp, prev_hash
\* or the transaction sequence have different hash() values, so verify()
\* rejects a block in which one of them was changed under its cached hash.
C27_HashCoversFields ==
    (candidate # None /\ verify(candidate[1])) =>
        LET block == candidate[1]
        IN  \A other \in OtherNonce(block) \cup OtherTimestamp(block)
                           \cup OtherPrevHash(block)
                           \cup OtherTransactions(block) :
                /\ Block_hash(other) # Block_hash(block)
                /\ ~verify(other)

\* the same for the fields other than the timestamp
C27_HashCoversHashedFields ==
    (candidate # None /\ verify(candidate[1])) =>
        LET block == candidate[1]
        IN  \A other \in OtherNonce(block) \cup OtherPrevHash(block)
                           \cup OtherTransactions(block) :
                /\ Block_hash(other) # Block_hash(block)
                /\ ~verify(other)

\* a block of two transactions whose timestamp can be changed under its hash
C27_ReachedSameHash ==
    /\ candidate # None
    /\ Len(candidate[1].transactions) = 2
    /\ \E other \in OtherTimestamp(candidate[1]) :
           Block_hash(other) = Block_hash(candidate[1]) /\ verify(other)

\* C28: the hash of a transaction is the same before and after its signature
\* is set or replaced and is a function of nonce, timestamp, sender and data
\* alone; a signature made over the hash of the unsigned transaction verifies
\* over the hash of the signed one.
C28_HashIgnoresSignature ==
    probe # None =>
        LET tx == probe[1].tx
        IN  /\ Transaction_hash(tx) = probe[1].unsigned_hash
            /\ Transaction_hash(tx) =
                   Transaction_hash([nonce |-> tx.nonce,
                                     timestamp |-> tx.timestamp,
                                     from |-> tx.from, data |-> tx.data,
                                     signature |-> None])
            /\ \A public_key \in PublicKeys :
                   tx.signature
                       = Some(sign(public_key, probe[1].unsigned_hash)) =>
                           Signature_verify(public_key, Transaction_hash(tx),
                                            tx.signature[1])

\* a transaction signed over its own hash
C28_Witness ==
    /\ probe # None
    /\ probe[1].tx.signature # None
    /\ probe[1].tx.signature[1].message = probe[1].unsigned_hash
    /\ Signature_verify(probe[1].tx.signature[1].key,
                        Transaction_hash(probe[1].tx), probe[1].tx.signature[1])

\* C29: append_block checks, in this order, the cached hash, the target, the
\* emptiness and the transactions: a block is rejected with the error of the
\* earliest check it fails; on a transaction failure the error carries the
\* reason of the first failing transaction and no later transaction has run.
C29_CheckOrder ==
    (submitted # None /\ (Appended \/ Err(result))) =>
        LET block == submitted[1]
            txs == block.transactions
        IN  IF ~verify(block)
            THEN result = "Block has invalid hash"
            ELSE IF bits_value(Hex(block.hash[1])) >= pre.current_target
            THEN result = "Block hash > current target!"
            ELSE IF Len(txs) = 0
            THEN result = "Block has 0 transactions."
            ELSE /\ trace # <<>>
                 /\ Len(trace) <= Len(txs)
                 /\ \A i \in DOMAIN trace :
                        /\ trace[i].tx = txs[i]
                        /\ i < Len(trace) => trace[i].res = Ok
                 /\ IF trace[Len(trace)].res = Ok
                    THEN Appended /\ Len(trace) = Len(txs)
                    ELSE result = "Error during tx execution: "
                                      \o trace[Len(trace)].res

\* a block with a wrong cached hash, a hash that does not clear the target and
\* no transactions was rejected for its hash
C29_Witness ==
    /\ submitted # None
    /\ result = "Block has invalid hash"
    /\ submitted[1].hash # None
    /\ bits_value(Hex(submitted[1].hash[1])) >= pre.current_target
    /\ Len(submitted[1].transactions) = 0

\* a self-consistent empty block that does not clear the target
C29_ReachedTargetBeforeEmptiness ==
    /\ submitted # None
    /\ result = "Block hash > current target!"
    /\ Len(submitted[1].transactions) = 0

\* a block was rejected at its second transaction, the third did not run
C29_ReachedFirstFailure ==
    /\ submitted # None
    /\ Err(result)
    /\ Len(trace) = 2
    /\ Len(submitted[1].transactions) = 3
    /\ accounts = pre.accounts

\* C30: hash_to_bits returns on every hash of 64 hex digits: on the all-zero
\* hash (exponent 20, coefficient 000000) and on the hashes whose first
\* non-zero digit is among the last COEFFICIENT_LENGTH - 1 digits.
C30_HashToBitsTotal ==
    probe # None =>
        /\ probe[1].out # Panic
        /\ (\A j \in 1..HASH_LENGTH : probe[1].hash[j] = 0) =>
               probe[1].out = <<2, 0, 0, 0, 0, 0, 0, 0>>

\* the all-zero hash: hash_to_bits returns 20000000
C30_ReachedAllZero ==
    /\ probe # None
    /\ \A j \in 1..HASH_LENGTH : probe[1].hash[j] = 0
    /\ probe[1].out = <<2, 0, 0, 0, 0, 0, 0, 0>>

\* first non-zero digit at index 59, the first of the last five: returns
C30_ReachedFiftyNine ==
    /\ probe # None
    /\ probe[1].hash = HashOf(HASH_LENGTH - COEFFICIENT_LENGTH + 1, <<1>>, 0)
    /\ probe[1].out = <<0, 3, 0, 1, 0, 0, 0, 0>>

\* first non-zero digit at index 63, the last one: panics
C30_ReachedLastDigit ==
    /\ probe # None
    /\ probe[1].hash = HashOf(HASH_LENGTH - 1, <<1>>, 0)
    /\ probe[1].out = Panic

C31_ReachedBorrow ==
    /\ probe # None
    /\ probe[1].retargets >= 1
    /\ from_str_radix(probe[1].compact_form, 2) = 30
    /\ compact_value(probe[1].compact_form) = current_target

\* a retarget that carried below the maximum: the coefficient starts with 0
C31_ReachedCarry ==
    /\ probe # None
    /\ probe[1].retargets >= 1
    /\ current_target > pre.current_target
    /\ current_target < MAX_TARGET
    /\ probe[1].compact_form[3] = 0

\* h1 <= h2 for two hashes of the same length, compared as numbers
HashLeq(h1, h2) ==
    \/ h1 = h2
    \/ \E j \in 1..Len(h1) :
           /\ h1[j] < h2[j]
           /\ \A k \in 1..(j - 1) : h1[k] = h2[k]

\* C32: check_target is monotone in the hash: when a hash clears a target,
\* every hash that is numerically not larger clears that target too.
C32_CheckTargetMonotone ==
    (probe # None /\ probe[1].out = "true") =>
        \A h1 \in Hashes :
            HashLeq(h1, probe[1].hash) =>
                check_target_call(probe[1].target, h1) = "true"

\* a hash cleared the target and the all-zero hash, the least of all, does not
C32_ReachedAllZero ==
    /\ probe # None
    /\ probe[1].out = "true"
    /\ HashLeq(HashOf(HASH_LENGTH, <<1>>, 0), probe[1].hash)
    /\ check_target_call(probe[1].target, HashOf(HASH_LENGTH, <<1>>, 0))
           = "false"

\* a hash cleared the target and on a smaller one check_target panics
C32_ReachedPanic ==
    /\ probe # None
    /\ probe[1].out = "true"
    /\ HashLeq(HashOf(HASH_LENGTH - 1, <<1>>, 0), probe[1].hash)
    /\ check_target_call(probe[1].target, HashOf(HASH_LENGTH - 1, <<1>>, 0))
           = Panic

\* on the hashes whose first non-zero digit is at an index below 60 the order
\* is kept: a smaller hash has a compact value that is not larger, and clears
\* every target the larger one clears
C32_MonotoneBelowSixty ==
    (probe # None /\ probe[1].out = "true") =>
        \A h1 \in Hashes :
            (/\ HashLeq(h1, probe[1].hash)
             /\ \E j \in 1..(HASH_LENGTH - 4) : h1[j] # 0) =>
                /\ check_target_call(probe[1].target, h1) = "true"
                /\ bits_value(h1) <= bits_value(probe[1].hash)

\* two hashes with a first non-zero digit below index 60, the smaller one with
\* the smaller compact value, both clearing the target
C32_ReachedOrdered ==
    /\ probe # None
    /\ probe[1].out = "true"
    /\ probe[1].hash = HashOf(35, <<3, 3, 3, 10, 1>>, 0)
    /\ bits_value(HashOf(36, <<3, 3, 3, 10, 1>>, 15)) < bits_value(probe[1].hash)

\* C33: once the chain holds a block, a call leaves the sum of all account
\* balances as it was, whether it appends a block or fails.
C33_FixedSupply ==
    Len(pre.blocks) >= 1 => SumBalances(accounts) = SumBalances(pre.accounts)

\* a block after genesis was appended with a transfer that returned Ok and
\* the sum of the balances is another one
C33_ReachedWrap ==
    /\ Len(pre.blocks) >= 1
    /\ Appended
    /\ ~overflow_checks
    /\ trace[1].tx.data.kind = "Transfer"
    /\ SumBalances(accounts) < SumBalances(pre.accounts)

\* in a build with overflow checks the sum stays, the states a panic leaves
\* included
C33_FixedSupplyWithChecks ==
    (overflow_checks /\ Len(pre.blocks) >= 1) =>
        SumBalances(accounts) = SumBalances(pre.accounts)

\* a block after genesis moved a balance and the sum stayed
C33_ReachedTransfer ==
    /\ Len(pre.blocks) >= 1
    /\ Appended
    /\ overflow_checks
    /\ accounts # pre.accounts
    /\ SumBalances(accounts) = SumBalances(pre.accounts)

\* a block after genesis whose transfer ran and whose second transaction, a
\* mint, was refused: the table is the one before the call
C33_ReachedRollback ==
    /\ Len(pre.blocks) >= 1
    /\ Len(trace) = 2
    /\ trace[1].res = Ok
    /\ trace[1].after # trace[1].before
    /\ trace[2].res = "Initial supply can be minted only in genesis block."
    /\ Err(result)
    /\ accounts = pre.accounts

\* in a build with overflow checks the credit of a transfer after genesis
\* panicked
C33_ReachedPanic ==
    /\ Len(pre.blocks) >= 1
    /\ overflow_checks
    /\ result = Panic

\* C34: in every state reachable from Blockchain::new() current_target is at
\* least 1: no sequence of retargets, at ratio 0.25 or any other, brings it
\* to 0.
C34_TargetPositive == current_target >= 1

\* a retarget at ratio 0.25 of the target 1: the target stays 1
C34_Witness ==
    /\ pre.current_target = 1
    /\ current_target = 1

\* the least target whole blocks reach: two blocks after genesis, each within
\* the second of the block before it
C34_ReachedQuarterTwice ==
    /\ Appended
    /\ Len(blocks) = 3
    /\ current_target = 33554431

====
